---- MODULE Spec2Model ----
(***************************************************************************)
(* Model of tools/proto-compiler/src/functions.rs: commitish resolution,   *)
(* repository synchronisation, output collection and module-tree           *)
(* generation.                                                             *)
(*                                                                         *)
(* Strings are sequences of one-character strings, so that prefix tests,   *)
(* concatenation, splitting and hex decoding are computed as the code      *)
(* computes them.                                                          *)
(***************************************************************************)
EXTENDS Integers, Sequences, FiniteSets, TLC

VARIABLES
    \* ---- commitish resolution (find_reference_or_commit)
    refs,        \* the repository's direct references: full name -> commit id
    commits,     \* commit ids present in the object database
    commitish,   \* the user-supplied string
    resolved,    \* result of find_reference_or_commit, or NotRun
    \* ---- module generation (generate_tendermint_mod / generate_tendermint_lib)
    prostFiles,  \* names of the regular files found under prost_dir
    version,     \* TendermintVersion: [ident, commitish]
    versions,    \* slice passed to generate_tendermint_lib
    modOut,      \* text written by generate_tendermint_mod, or NotRun / Panicked
    libOut,      \* text written by generate_tendermint_lib, or NotRun / Panicked
    \* ---- output collection (copy_files / find_proto_files)
    srcTree,     \* regular files under the walked directory: set of [dir, name]
    targetDir,   \* target_dir: whether it exists, and its files (name -> copied entry)
    fsRun,       \* record of the last filesystem operation run
    swallowed,   \* failures of underlying steps that were ignored so far
    \* ---- repository synchronisation (get_commitish)
    site,        \* state of dir: existence, repository, remote config, refs, HEAD
    syncRun      \* record of the last get_commitish invocation

vars == <<refs, commits, commitish, resolved,
          prostFiles, version, versions, modOut, libOut,
          srcTree, targetDir, fsRun, swallowed,
          site, syncRun>>

resolveVars == <<refs, commits, commitish, resolved>>
genVars     == <<prostFiles, version, versions, modOut, libOut>>
fsVars      == <<srcTree, targetDir, fsRun, swallowed>>
syncVars    == <<site, syncRun>>

NotRun   == "NotRun"
Panicked == "Panicked"

(***************************************************************************)
(* String helpers                                                          *)
(***************************************************************************)
StartsWith(s, p) == Len(s) >= Len(p) /\ SubSeq(s, 1, Len(p)) = p
EndsWith(s, p)   == Len(s) >= Len(p) /\ SubSeq(s, Len(s) - Len(p) + 1, Len(s)) = p
StripPrefix(s, p) == SubSeq(s, Len(p) + 1, Len(s))
StripSuffix(s, p) == SubSeq(s, 1, Len(s) - Len(p))

ORIGIN_SLASH == <<"o","r","i","g","i","n","/">>
REFS_DIR         == <<"r","e","f","s","/">>
REFS_TAGS_DIR    == REFS_DIR \o <<"t","a","g","s","/">>
REFS_HEADS_DIR   == REFS_DIR \o <<"h","e","a","d","s","/">>
REFS_REMOTES_DIR == REFS_DIR \o <<"r","e","m","o","t","e","s","/">>
SLASH_HEAD       == <<"/","H","E","A","D">>

(***************************************************************************)
(* Bounds                                                                  *)
(***************************************************************************)
\* width in bytes of a commit id (the library's raw oid size, scaled down)
OidRawSz == 1
\* greatest number of references a modelled repository holds
MaxRefs == 3

(***************************************************************************)
(* Commitish resolution                                                    *)
(***************************************************************************)
NoRef == <<>>
NoOid == <<>>

\* git2 Repository::resolve_reference_from_short_name: the lookup formats are
\* tried in this order and the first existing reference wins
Formatters(name) ==
    << name,
       REFS_DIR \o name,
       REFS_TAGS_DIR \o name,
       REFS_HEADS_DIR \o name,
       REFS_REMOTES_DIR \o name,
       REFS_REMOTES_DIR \o name \o SLASH_HEAD >>

ResolveReferenceFromShortName(rf, name) ==
    LET f == Formatters(name)
        hits == {i \in 1..Len(f) : f[i] \in DOMAIN rf}
    IN IF hits = {} THEN NoRef
       ELSE f[CHOOSE i \in hits : \A j \in hits : i <= j]

\* Reference::is_branch
IsBranch(refname) == StartsWith(refname, REFS_HEADS_DIR)

\* value of one hex digit, -1 when the digit is not of the wanted case
HexVal(ch, upper) ==
    CASE ch = "0" -> 0 [] ch = "1" -> 1 [] ch = "2" -> 2 [] ch = "3" -> 3
      [] ch = "4" -> 4 [] ch = "5" -> 5 [] ch = "6" -> 6 [] ch = "7" -> 7
      [] ch = "8" -> 8 [] ch = "9" -> 9
      [] ch = "a" /\ ~upper -> 10 [] ch = "b" /\ ~upper -> 11
      [] ch = "c" /\ ~upper -> 12 [] ch = "d" /\ ~upper -> 13
      [] ch = "e" /\ ~upper -> 14 [] ch = "f" /\ ~upper -> 15
      [] ch = "A" /\ upper -> 10 [] ch = "B" /\ upper -> 11
      [] ch = "C" /\ upper -> 12 [] ch = "D" /\ upper -> 13
      [] ch = "E" /\ upper -> 14 [] ch = "F" /\ upper -> 15
      [] OTHER -> -1

\* subtle_encoding hex::decode (upper = FALSE) and hex::decode_upper (upper = TRUE)
HexDecode(s, upper) ==
    IF Len(s) % 2 # 0 \/ \E i \in 1..Len(s) : HexVal(s[i], upper) = -1
    THEN [ok |-> FALSE, bytes |-> <<>>]
    ELSE [ok |-> TRUE,
          bytes |-> [i \in 1..(Len(s) \div 2) |->
                        16 * HexVal(s[2 * i - 1], upper) + HexVal(s[2 * i], upper)]]

\* a decoder that forgets the upper-case fallback
DecodeCommitish_LowerOnly(c) == HexDecode(c, FALSE)

\* hex::decode(commitish).unwrap_or_else(|_| hex::decode_upper(commitish).unwrap())
DecodeCommitish(c) ==
    IF HexDecode(c, FALSE).ok THEN HexDecode(c, FALSE) ELSE HexDecode(c, TRUE)

Ok(reference, commit) ==
    [outcome |-> "Ok", reference |-> reference, commit |-> commit, diag |-> "", line |-> 0]
Panic(diag, line) ==
    [outcome |-> "Panic", reference |-> NoRef, commit |-> NoOid, diag |-> diag, line |-> line]
AmbiguousLocalBranch == "local branch names with 'origin/' prefix not supported"

\* lines 132-141: last chance, the commitish as a commit id
TryCommitId(cm, c) ==
    LET d == DecodeCommitish(c)
    IN IF ~d.ok THEN Panic("unwrap", 136)
       ELSE IF Len(d.bytes) # OidRawSz THEN Panic("unwrap", 139)
       ELSE IF d.bytes \notin cm THEN Panic("unwrap", 140)
       ELSE Ok(NoRef, d.bytes)

\* a resolver without the tried_origin guard of lines 147-149
FromReference_NoOriginGuard(rf, c, first, tried_origin) ==
    IF IsBranch(first) /\ ~tried_origin
    THEN LET second == ResolveReferenceFromShortName(rf, ORIGIN_SLASH \o c)
         IN IF second = NoRef THEN Panic("unwrap", 151)
            ELSE IF IsBranch(second) THEN Panic(AmbiguousLocalBranch, 153)
            ELSE Ok(second, rf[second])
    ELSE Ok(first, rf[first])

\* lines 145-158: the reference found, and the branch disambiguation
FromReference(rf, c, first, tried_origin) ==
    IF IsBranch(first)
    THEN IF tried_origin THEN Panic(AmbiguousLocalBranch, 148)
         ELSE LET second == ResolveReferenceFromShortName(rf, ORIGIN_SLASH \o c)
              IN IF second = NoRef THEN Panic("unwrap", 151)
                 ELSE IF IsBranch(second) THEN Panic(AmbiguousLocalBranch, 153)
                 ELSE Ok(second, rf[second])
    ELSE Ok(first, rf[first])

FindReferenceOrCommit(rf, cm, c) ==
    LET try1 == ResolveReferenceFromShortName(rf, c)
        try2 == ResolveReferenceFromShortName(rf, ORIGIN_SLASH \o c)
    IN IF try1 # NoRef THEN FromReference(rf, c, try1, FALSE)
       ELSE IF try2 # NoRef THEN FromReference(rf, c, try2, TRUE)
       ELSE TryCommitId(cm, c)

NotResolved ==
    [outcome |-> NotRun, reference |-> NoRef, commit |-> NoOid, diag |-> "", line |-> 0]

(***************************************************************************)
(* Module generation                                                       *)
(***************************************************************************)
\* greatest number of generated files under prost_dir
MaxFiles == 2
\* greatest length of the slice given to generate_tendermint_lib
MaxVersions == 3

TENDERMINT_DOT == <<"t","e","n","d","e","r","m","i","n","t",".">>
DOT_RS         == <<".","r","s">>
\* crate::constants::TENDERMINT_REPO as referenced at line 269; its value is
\* set outside this file and is kept opaque
TENDERMINT_REPO == <<"T","E","N","D","E","R","M","I","N","T","_","R","E","P","O">>
REPOSITORY == <<"R","E","P","O","S","I","T","O","R","Y">>
COMMITISH  == <<"C","O","M","M","I","T","I","S","H">>

\* byte value of the characters that occur in file names, for String's ordering
CharCode(ch) ==
    CASE ch = "." -> 46 [] ch = "_" -> 95
      [] ch = "0" -> 48 [] ch = "1" -> 49 [] ch = "2" -> 50 [] ch = "3" -> 51
      [] ch = "a" -> 97 [] ch = "b" -> 98 [] ch = "c" -> 99 [] ch = "d" -> 100
      [] ch = "e" -> 101 [] ch = "i" -> 105 [] ch = "m" -> 109 [] ch = "n" -> 110
      [] ch = "o" -> 111 [] ch = "p" -> 112 [] ch = "r" -> 114 [] ch = "s" -> 115
      [] ch = "t" -> 116 [] ch = "v" -> 118 [] ch = "x" -> 120
      [] OTHER -> 0

\* Ord for String: lexicographic on bytes, a proper prefix first
RECURSIVE StrLess(_, _)
StrLess(s, t) ==
    IF t = <<>> THEN FALSE
    ELSE IF s = <<>> THEN TRUE
    ELSE IF CharCode(Head(s)) # CharCode(Head(t)) THEN CharCode(Head(s)) < CharCode(Head(t))
    ELSE StrLess(Tail(s), Tail(t))

\* iteration order of a BTreeSet<String>
RECURSIVE BTreeSetOrder(_)
BTreeSetOrder(S) ==
    IF S = {} THEN <<>>
    ELSE LET least == CHOOSE x \in S : \A y \in S \ {x} : StrLess(x, y)
         IN <<least>> \o BTreeSetOrder(S \ {least})

\* str::split(sep): the pieces between separators, [""] for the empty string
RECURSIVE SplitFrom(_, _, _)
SplitFrom(s, sep, cur) ==
    IF s = <<>> THEN <<cur>>
    ELSE IF Head(s) = sep THEN <<cur>> \o SplitFrom(Tail(s), sep, <<>>)
    ELSE SplitFrom(Tail(s), sep, Append(cur, Head(s)))
Split(s, sep) == SplitFrom(s, sep, <<>>)

Reverse(q) == [i \in 1..Len(q) |-> q[Len(q) + 1 - i]]

\* lines 220-224: the filter on the walked entries
IsGeneratedRs(name) == StartsWith(name, TENDERMINT_DOT) /\ EndsWith(name, DOT_RS)

\* a line of generated text: indentation in tabs and the tokens of the line
Line(tabs, kind, name, value) == [tabs |-> tabs, kind |-> kind, name |-> name, value |-> value]
DocLine     == Line(0, "doc", <<>>, <<>>)
BlankLine   == Line(0, "blank", <<>>, <<>>)
IncludeLine(tabs, ident, file_name) == Line(tabs, "include", ident, file_name)
ModLine(tabs, part) == Line(tabs, "pub mod", part, <<>>)
CloseLine(tabs)     == Line(tabs, "}", <<>>, <<>>)
ConstLine(tabs, name, value) == Line(tabs, "pub const", name, value)

\* lines 234-241: strip_prefix, strip_suffix (either may fail), split, rev
PartsOk(file_name) ==
    /\ StartsWith(file_name, TENDERMINT_DOT)
    /\ EndsWith(StripPrefix(file_name, TENDERMINT_DOT), DOT_RS)
Parts(file_name) ==
    Reverse(Split(StripSuffix(StripPrefix(file_name, TENDERMINT_DOT), DOT_RS), "."))

\* lines 252-259: wrap the accumulated text in one container per part
RECURSIVE WrapParts(_, _, _)
WrapParts(inner_content, parts, tab_count) ==
    IF parts = <<>> THEN inner_content
    ELSE WrapParts(<<ModLine(tab_count - 1, Head(parts))>> \o inner_content
                       \o <<CloseLine(tab_count - 1)>>,
                   Tail(parts), tab_count - 1)

\* lines 243-259: the block of one file
FileBlock(ident, file_name) ==
    LET parts == Parts(file_name)
    IN WrapParts(<<IncludeLine(Len(parts), ident, file_name)>>, parts, Len(parts))

\* lines 233-262: the blocks of all files, in order
RECURSIVE ModuleBlocks(_, _, _)
ModuleBlocks(content, ident, file_names) ==
    IF file_names = <<>> THEN content
    ELSE ModuleBlocks(content \o <<BlankLine>> \o FileBlock(ident, Head(file_names)),
                      ident, Tail(file_names))

\* a metadata block that records the ident where the commitish belongs
MetaBlock_IdentForCommitish(v) ==
    << BlankLine,
       ModLine(0, <<"m","e","t","a">>),
       ConstLine(1, REPOSITORY, TENDERMINT_REPO),
       ConstLine(1, COMMITISH, v.ident),
       CloseLine(0) >>

\* lines 264-272: the metadata block
MetaBlock(v) ==
    << BlankLine,
       ModLine(0, <<"m","e","t","a">>),
       ConstLine(1, REPOSITORY, TENDERMINT_REPO),
       ConstLine(1, COMMITISH, v.commitish),
       CloseLine(0) >>

\* lines 227-272: the text of the module file
ModuleContent(v, names) ==
    ModuleBlocks(<<DocLine>>, v.ident, BTreeSetOrder(names)) \o MetaBlock(v)

\* lines 284-288: the text of the library file
RECURSIVE ModDecls(_)
ModDecls(vs) ==
    IF vs = <<>> THEN <<>>
    ELSE <<Line(0, "pub mod;", Head(vs).ident, <<>>)>> \o ModDecls(Tail(vs))
\* a re-export of the lexically greatest ident instead of the last one
LastVersion_LexGreatest(vs) ==
    vs[CHOOSE i \in 1..Len(vs) : \A j \in 1..Len(vs) : ~StrLess(vs[i].ident, vs[j].ident)]
\* line 287
LastVersion(vs) == vs[Len(vs)]
LibContent(vs) == ModDecls(vs) \o <<Line(0, "pub use", LastVersion(vs).ident, <<>>)>>

(***************************************************************************)
(* Output collection and schema discovery                                  *)
(***************************************************************************)
\* greatest number of regular files under the walked directory
MaxEntries == 3

DOT   == <<".">>
PROTO == <<"p","r","o","t","o">>

\* Path::extension: the part after the last '.', none when the name has no '.'
\* or only a leading one
HasExtension(name) == \E i \in 2..Len(name) : name[i] = "."
Extension(name) ==
    LET last == CHOOSE i \in 2..Len(name) :
                    name[i] = "." /\ \A j \in (i + 1)..Len(name) : name[j] # "."
    IN SubSeq(name, last + 1, Len(name))

\* lines 171-177: the entries copy_files keeps (every modelled entry is a regular
\* file; with contents_first a directory is yielded after its contents, so
\* rejecting it does not prune the files below it)
IsCollected(e) == StartsWith(e.name, TENDERMINT_DOT)
\* lines 201-205: the entries find_proto_files keeps
IsProto(e) == HasExtension(e.name) /\ Extension(e.name) = PROTO

\* the entries WalkDir::new(root) visits: the files of the tree at or below root
Under(tree, root) == IF root = "." THEN tree ELSE {e \in tree : e.dir = root}

\* the orders in which a walk can yield a set of entries
Orders(S) == {q \in [1..Cardinality(S) -> S] : \A e \in S : \E i \in DOMAIN q : q[i] = e}

\* std::fs::copy of each entry in turn into target_dir.join(file_name): a later
\* entry of the same name overwrites the earlier one
RECURSIVE CopyAll(_, _, _)
CopyAll(files, order, failing) ==
    IF order = <<>> THEN files
    ELSE LET e == Head(order)
             written == IF e \in failing THEN files
                        ELSE [n \in DOMAIN files \cup {e.name} |->
                                 IF n = e.name THEN e ELSE files[n]]
         IN CopyAll(written, Tail(order), failing)

NoFiles == [n \in {} |-> 0]
Ignored(op, step, error) == [op |-> op, step |-> step, error |-> error]
FsResult(op, outcome, protos) == [op |-> op, outcome |-> outcome, protos |-> protos]

\* lines 162-191
\*   rm:      result of remove_dir_all, "Ok", "NotFound" or "PermissionDenied"
\*   left:    what a failed removal leaves behind in target_dir
\*   mkdirOk: result of create_dir_all
\*   walkOk:  FALSE when the walk yields an error entry (the subdirectory
\*            cannot be read, so that only the top-level files are yielded)
\*   order:   the order in which the walk yields the kept entries
\*   failing: the entries whose copy fails
CopyFiles(rm, left, mkdirOk, walkOk, order, failing) ==
    LET afterRm == IF rm = "Ok" THEN [exists |-> FALSE, files |-> NoFiles]
                   ELSE IF rm = "NotFound" THEN targetDir
                   ELSE [exists |-> TRUE, files |-> left]
        afterMk == [exists |-> TRUE, files |-> afterRm.files]
        copied  == [exists |-> TRUE, files |-> CopyAll(afterMk.files, order, failing)]
    IN /\ swallowed' = IF rm = "Ok" THEN swallowed
                       ELSE swallowed \cup {Ignored("copy_files", "remove_dir_all", rm)}
       /\ IF ~mkdirOk
          THEN /\ targetDir' = afterRm
               /\ fsRun' = FsResult("copy_files", "Panic", <<>>)
          ELSE /\ targetDir' = copied
               /\ fsRun' = FsResult("copy_files",
                                    IF walkOk /\ failing = {} THEN "Ok" ELSE "Panic", <<>>)
       /\ UNCHANGED srcTree

\* lines 194-211
\*   proto_paths: the roots, in order
\*   unreadable:  the entries whose walk fails
\*   orderOf:     for each root, the order in which its walk yields the kept entries
RECURSIVE Concat(_, _)
Concat(roots, orderOf) ==
    IF roots = <<>> THEN <<>>
    ELSE orderOf[Head(roots)] \o Concat(Tail(roots), orderOf)

FindProtoFiles(proto_paths, unreadable, orderOf) ==
    /\ swallowed' = IF unreadable = {} THEN swallowed
                    ELSE swallowed \cup {Ignored("find_proto_files", "WalkDir", "walk error")}
    /\ fsRun' = FsResult("find_proto_files", "Ok", Concat(proto_paths, orderOf))
    /\ UNCHANGED <<srcTree, targetDir>>

\* lines 215-279
\*   fail:       the filesystem step that fails, or "none"
\*   unreadable: the names whose walk entry is an error
GenResult(outcome, file, content) == [outcome |-> outcome, file |-> file, content |-> content]
GenerateTendermintMod(fail, unreadable) ==
    LET file_names == {n \in prostFiles \ unreadable : IsGeneratedRs(n)}
    IN /\ swallowed' =
              IF unreadable = {} \/ fail = "create_dir_all" THEN swallowed
              ELSE swallowed \cup {Ignored("generate_tendermint_mod", "WalkDir", "walk error")}
       /\ modOut' =
              IF fail = "create_dir_all" THEN GenResult(Panicked, <<>>, <<>>)
              ELSE IF \E n \in file_names : ~PartsOk(n) THEN GenResult(Panicked, <<>>, <<>>)
              ELSE IF fail # "none" THEN GenResult(Panicked, <<>>, <<>>)
              ELSE GenResult("Ok", version.ident \o DOT_RS, ModuleContent(version, file_names))
       /\ UNCHANGED <<prostFiles, version, versions, libOut>>

\* lines 281-289
GenerateTendermintLib(createOk) ==
    /\ libOut' = IF ~createOk THEN GenResult(Panicked, <<>>, <<>>)
                 ELSE IF versions = <<>> THEN GenResult(Panicked, <<>>, <<>>)
                 ELSE GenResult("Ok", <<>>, LibContent(versions))
    /\ UNCHANGED <<prostFiles, version, versions, modOut>>

(***************************************************************************)
(* Repository synchronisation                                              *)
(***************************************************************************)
NoUrl == ""
BranchName == <<"m">>
\* the commit each upstream URL has on its branch
OidOf(byte) == [i \in 1..OidRawSz |-> byte]
OidA == OidOf(170)
OidB == OidOf(26)
UpstreamTip(url) == IF url = "urlA" THEN OidA ELSE OidB
TrackingRef == REFS_REMOTES_DIR \o ORIGIN_SLASH \o BranchName
LocalBranch == REFS_HEADS_DIR \o BranchName

\* a fetch with the default refspec of origin: the remote-tracking branch is
\* created or moved to the upstream tip
Fetch(rf, from) ==
    [n \in DOMAIN rf \cup {TrackingRef} |-> IF n = TrackingRef THEN UpstreamTip(from) ELSE rf[n]]

NoSite == [dirExists |-> FALSE, isRepo |-> FALSE, originUrl |-> NoUrl,
           head |-> [symbolic |-> NoRef, commit |-> NoOid], worktree |-> NoOid]
NoRefs == [n \in {} |-> NoOid]

SyncResult(outcome, path, url, c, fetchedFrom, afterInterrupt) ==
    [outcome |-> outcome, path |-> path, url |-> url, commitish |-> c,
     fetchedFrom |-> fetchedFrom, afterInterrupt |-> afterInterrupt]

\* lines 28-43: RepoBuilder::clone, run to completion
CloneNew(url) ==
    [site |-> [dirExists |-> TRUE, isRepo |-> TRUE, originUrl |-> url,
               head |-> [symbolic |-> LocalBranch, commit |-> UpstreamTip(url)],
               worktree |-> UpstreamTip(url)],
     refs |-> [n \in {LocalBranch, TrackingRef} |-> UpstreamTip(url)],
     commits |-> {UpstreamTip(url)}]

\* RepoBuilder::clone killed after one of its steps
PartialClone(url, point) ==
    [site |-> [dirExists |-> TRUE,
               isRepo |-> point # "mkdir",
               originUrl |-> IF point \in {"remote", "fetch"} THEN url ELSE NoUrl,
               head |-> [symbolic |-> NoRef, commit |-> NoOid],
               worktree |-> NoOid],
     refs |-> IF point = "fetch" THEN Fetch(NoRefs, url) ELSE NoRefs,
     commits |-> IF point = "fetch" THEN {UpstreamTip(url)} ELSE {}]

\* lines 57-59: the URL of the Remote the fetch is run on, as loaded or created
LoadedRemoteUrl(st, url) == IF st.originUrl = NoUrl THEN url ELSE st.originUrl
\* lines 59-62: the URL of origin in the repository's configuration afterwards
ConfiguredUrl(st, url) == IF LoadedRemoteUrl(st, url) # url THEN url ELSE LoadedRemoteUrl(st, url)

\* lines 103-109: set_head on a branch keeps HEAD symbolic, otherwise detaches it
SetHead(r) ==
    IF r.reference # NoRef /\ IsBranch(r.reference)
    THEN [symbolic |-> r.reference, commit |-> r.commit]
    ELSE [symbolic |-> NoRef, commit |-> r.commit]

\* lines 88-118
CheckoutCommitish(st, r) ==
    IF r.outcome = "Ok" THEN [st EXCEPT !.head = SetHead(r), !.worktree = r.commit] ELSE st

\* lines 19-26, with fetch_existing (45-86) or clone_new (28-43)
GetCommitish(url, c) ==
    LET after == syncRun.outcome = "Interrupted" /\ syncRun.url = url /\ syncRun.commitish = c
    IN IF site.dirExists /\ ~site.isRepo
       THEN \* Repository::open(dir).unwrap() at line 51
            /\ syncRun' = SyncResult("Panic", "fetch", url, c, NoUrl, after)
            /\ UNCHANGED <<site, refs, commits>>
       ELSE LET from == LoadedRemoteUrl(site, url)
                repo == IF site.dirExists
                        THEN [site |-> [site EXCEPT !.originUrl = ConfiguredUrl(site, url)],
                              refs |-> Fetch(refs, from),
                              commits |-> commits \cup {UpstreamTip(from)}]
                        ELSE CloneNew(url)
                r == FindReferenceOrCommit(repo.refs, repo.commits, c)
            IN /\ site' = CheckoutCommitish(repo.site, r)
               /\ refs' = repo.refs
               /\ commits' = repo.commits
               /\ syncRun' = SyncResult(IF r.outcome = "Ok" THEN "Ok" ELSE "Panic",
                                        IF site.dirExists THEN "fetch" ELSE "clone",
                                        url, c,
                                        IF site.dirExists THEN from ELSE url, after)

\* get_commitish killed inside clone_new
GetCommitishInterrupted(url, c, point) ==
    /\ ~site.dirExists
    /\ site' = PartialClone(url, point).site
    /\ refs' = PartialClone(url, point).refs
    /\ commits' = PartialClone(url, point).commits
    /\ syncRun' = SyncResult("Interrupted", "clone", url, c, NoUrl, FALSE)

(***************************************************************************)
(* Inputs and specifications                                               *)
(***************************************************************************)
HexAlphabet == {"a", "A", "1"}
HexStrings  == [1..(2 * OidRawSz) -> HexAlphabet]
Commitishes == {BranchName, ORIGIN_SLASH \o BranchName} \cup HexStrings
OidUniverse == {OidA, OidB}
HexOfOidA   == [i \in 1..(2 * OidRawSz) |-> "a"]

\* the reference names a commitish can reach through the lookup formats, and
\* the local branch
CandidateRefs(c) ==
    {ns \o sn : ns \in {REFS_TAGS_DIR, REFS_HEADS_DIR, REFS_REMOTES_DIR},
                sn \in {c, ORIGIN_SLASH \o c}}
    \cup {REFS_HEADS_DIR \o BranchName}

Idents == {<<"v","1">>, <<"v","2">>}
VersionUniverse == [ident : Idents, commitish : {BranchName, <<"a","1">>}]
NoVersion == [ident |-> <<>>, commitish |-> <<>>]

NsSegments == {<<"a">>, <<"b">>, <<"c">>}
NsPaths == {sg : sg \in NsSegments} \cup {s1 \o DOT \o s2 : s1 \in NsSegments, s2 \in NsSegments}
ProstUniverse ==
    {TENDERMINT_DOT \o np \o DOT_RS : np \in NsPaths}
    \cup { <<"t","e","n","d","e","r","m","i","n","t",".","r","s">>,
           <<"t","e","n","d","e","r","m","i","n","t",".","a",".","m","d">>,
           <<"x",".","r","s">> }

FsNames == { TENDERMINT_DOT \o <<"a">> \o DOT_RS,
             TENDERMINT_DOT \o <<"b">> \o DOT_RS,
             <<"x",".","p","r","o","t","o">>,
             <<"o",".","r","s">> }
PathUniverse == [dir : {".", "sub"}, name : FsNames]
StaleName == TENDERMINT_DOT \o <<"o","l","d">> \o DOT_RS
OldFile(n) == [dir |-> "old", name |-> n]
OldTargets ==
    {[exists |-> FALSE, files |-> NoFiles]}
    \cup {[exists |-> TRUE, files |-> [n \in S |-> OldFile(n)]] :
             S \in SUBSET {StaleName, TENDERMINT_DOT \o <<"a">> \o DOT_RS}}

ResolveIdle == /\ refs = NoRefs /\ commits = {} /\ commitish = <<>> /\ resolved = NotResolved
GenIdle ==
    /\ prostFiles = {} /\ version = NoVersion /\ versions = <<>>
    /\ modOut = GenResult(NotRun, <<>>, <<>>) /\ libOut = GenResult(NotRun, <<>>, <<>>)
FsIdle ==
    /\ srcTree = {} /\ targetDir = [exists |-> FALSE, files |-> NoFiles]
    /\ fsRun = FsResult(NotRun, NotRun, <<>>) /\ swallowed = {}
SyncIdle ==
    /\ site = NoSite /\ syncRun = SyncResult(NotRun, "", NoUrl, <<>>, NoUrl, FALSE)

\* ---- commitish resolution on an arbitrary repository
InitResolve ==
    /\ commitish \in Commitishes
    /\ commits \in SUBSET OidUniverse
    /\ \E names \in {S \in SUBSET CandidateRefs(commitish) : Cardinality(S) <= MaxRefs} :
           refs \in [names -> commits]
    /\ resolved = NotResolved
    /\ GenIdle /\ FsIdle /\ SyncIdle
Resolve ==
    /\ resolved' = FindReferenceOrCommit(refs, commits, commitish)
    /\ UNCHANGED <<refs, commits, commitish, genVars, fsVars, syncVars>>
NextResolve == Resolve
SpecResolve == InitResolve /\ [][NextResolve]_vars

\* ---- generate_tendermint_mod
InitMod ==
    /\ prostFiles \in {S \in SUBSET ProstUniverse : Cardinality(S) <= MaxFiles}
    /\ version \in VersionUniverse
    /\ versions = <<>>
    /\ modOut = GenResult(NotRun, <<>>, <<>>) /\ libOut = GenResult(NotRun, <<>>, <<>>)
    /\ ResolveIdle /\ FsIdle /\ SyncIdle
NextMod ==
    \E fail \in {"none", "create_dir_all", "File::create", "write_all"},
       unreadable \in SUBSET prostFiles :
        /\ GenerateTendermintMod(fail, unreadable)
        /\ UNCHANGED <<resolveVars, srcTree, targetDir, fsRun, syncVars>>
SpecMod == InitMod /\ [][NextMod]_vars

\* ---- generate_tendermint_lib
InitLib ==
    /\ versions \in UNION {[1..n -> VersionUniverse] : n \in 0..MaxVersions}
    /\ prostFiles = {} /\ version = NoVersion
    /\ modOut = GenResult(NotRun, <<>>, <<>>) /\ libOut = GenResult(NotRun, <<>>, <<>>)
    /\ ResolveIdle /\ FsIdle /\ SyncIdle
NextLib ==
    \E createOk \in BOOLEAN :
        /\ GenerateTendermintLib(createOk)
        /\ UNCHANGED <<resolveVars, fsVars, syncVars>>
SpecLib == InitLib /\ [][NextLib]_vars

\* ---- copy_files and find_proto_files
InitFs ==
    /\ srcTree \in {S \in SUBSET PathUniverse : Cardinality(S) <= MaxEntries}
    /\ targetDir \in OldTargets
    /\ fsRun = FsResult(NotRun, NotRun, <<>>)
    /\ swallowed = {}
    /\ ResolveIdle /\ GenIdle /\ SyncIdle
RunCopyFiles ==
    \E rm \in (IF targetDir.exists THEN {"Ok", "PermissionDenied"} ELSE {"NotFound"}),
       mkdirOk \in BOOLEAN, walkOk \in BOOLEAN :
      \E left \in (IF rm = "PermissionDenied"
                   THEN {[n \in S |-> targetDir.files[n]] : S \in SUBSET DOMAIN targetDir.files}
                   ELSE {NoFiles}) :
        LET seen == IF walkOk THEN Under(srcTree, ".") ELSE {e \in srcTree : e.dir = "."}
            kept == {e \in seen : IsCollected(e)}
        IN \E order \in Orders(kept), failing \in SUBSET kept :
              /\ CopyFiles(rm, left, mkdirOk, walkOk, order, failing)
              /\ UNCHANGED <<resolveVars, genVars, syncVars>>
RunFindProtoFiles ==
    \E proto_paths \in {<<".">>, <<"sub">>, <<".", "sub">>},
       unreadable \in SUBSET {e \in srcTree : IsProto(e)} :
      \E o1 \in Orders({e \in Under(srcTree, ".") \ unreadable : IsProto(e)}),
         o2 \in Orders({e \in Under(srcTree, "sub") \ unreadable : IsProto(e)}) :
        /\ FindProtoFiles(proto_paths, unreadable,
                          [r \in {".", "sub"} |-> IF r = "." THEN o1 ELSE o2])
        /\ UNCHANGED <<resolveVars, genVars, syncVars>>
NextFs == RunCopyFiles \/ RunFindProtoFiles
SpecFs == InitFs /\ [][NextFs]_vars

\* ---- get_commitish
Urls == {"urlA", "urlB"}
SyncCommitishes == {BranchName, ORIGIN_SLASH \o BranchName, HexOfOidA}
ClonePoints == {"mkdir", "init", "remote", "fetch"}
InitSync == ResolveIdle /\ GenIdle /\ FsIdle /\ SyncIdle
RunGetCommitish ==
    \E url \in Urls, c \in SyncCommitishes :
        /\ GetCommitish(url, c)
        /\ UNCHANGED <<commitish, resolved, genVars, fsVars>>
KillGetCommitish ==
    \E url \in Urls, c \in SyncCommitishes, point \in ClonePoints :
        /\ GetCommitishInterrupted(url, c, point)
        /\ UNCHANGED <<commitish, resolved, genVars, fsVars>>
NextSync == RunGetCommitish \/ KillGetCommitish
SpecSync == InitSync /\ [][NextSync]_vars

(***************************************************************************)
(* Properties                                                              *)
(***************************************************************************)
Has(n) == n \in DOMAIN refs
Ran == resolved.outcome # NotRun
NoTagShadows ==
    ~Has(REFS_TAGS_DIR \o commitish) /\ ~Has(REFS_TAGS_DIR \o ORIGIN_SLASH \o commitish)

\* C1: when the commitish is the short name of an existing local branch, no
\* local branch is literally named origin/<commitish> (and no tag of either
\* name exists), the result is the remote-tracking reference
\* origin/<commitish> when it exists and the local branch otherwise; the
\* resolution does not fail.
C1_LocalBranchPrefersOrigin ==
    (/\ Ran
     /\ Has(REFS_HEADS_DIR \o commitish)
     /\ ~Has(REFS_HEADS_DIR \o ORIGIN_SLASH \o commitish)
     /\ NoTagShadows)
    => /\ resolved.outcome = "Ok"
       /\ resolved.reference =
              IF Has(REFS_REMOTES_DIR \o ORIGIN_SLASH \o commitish)
              THEN REFS_REMOTES_DIR \o ORIGIN_SLASH \o commitish
              ELSE REFS_HEADS_DIR \o commitish

OriginProbeHitsLocalBranch ==
    /\ IsBranch(ResolveReferenceFromShortName(refs, ORIGIN_SLASH \o commitish))
    /\ \/ ResolveReferenceFromShortName(refs, commitish) = NoRef
       \/ IsBranch(ResolveReferenceFromShortName(refs, commitish))

AnyCaseVal(ch) == IF HexVal(ch, FALSE) # -1 THEN HexVal(ch, FALSE) ELSE HexVal(ch, TRUE)
\* c is the hex encoding of the commit id o, in any letter case
IsHexOf(c, o) ==
    /\ Len(c) = 2 * Len(o)
    /\ \A i \in 1..Len(c) : AnyCaseVal(c[i]) # -1
    /\ \A i \in 1..Len(o) : 16 * AnyCaseVal(c[2 * i - 1]) + AnyCaseVal(c[2 * i]) = o[i]
\* all letters of c are of one case
OneCase(c) ==
    \/ \A i \in 1..Len(c) : HexVal(c[i], FALSE) # -1
    \/ \A i \in 1..Len(c) : HexVal(c[i], TRUE) # -1
NoReferenceNamed(c) ==
    \A i \in 1..Len(Formatters(c)) :
        ~Has(Formatters(c)[i]) /\ ~Has(Formatters(ORIGIN_SLASH \o c)[i])

\* C3 as stated: a commitish that is the hex encoding, in any letter case, of
\* a commit of the repository resolves to that commit and no reference,
\* whatever references exist.
C3_HexResolvesToCommit ==
    \A o \in commits :
        (Ran /\ IsHexOf(commitish, o))
        => resolved = Ok(NoRef, o)

\* C3 (amended): a commitish that is the all-lower-case or all-upper-case hex
\* encoding of a commit of the repository, and that does not resolve as a
\* reference short name either as given or with "origin/" prepended,
\* resolves to exactly that commit and no reference.
C3_OneCaseHexResolvesToCommit ==
    \A o \in commits :
        (Ran /\ IsHexOf(commitish, o) /\ OneCase(commitish) /\ NoReferenceNamed(commitish))
        => resolved = Ok(NoRef, o)

C3_Witness ==
    /\ Ran
    /\ \E o \in commits : IsHexOf(commitish, o) /\ resolved = Ok(NoRef, o)
    /\ \E i \in 1..Len(commitish) : commitish[i] = "A"
    /\ refs # NoRefs
    /\ Cardinality(commits) = 2

\* the namespace paths of the containers a text declares, in order of declaration
RECURSIVE Declared(_, _, _)
Declared(lines, i, stack) ==
    IF i > Len(lines) THEN <<>>
    ELSE IF lines[i].kind = "pub mod"
         THEN <<Append(stack, lines[i].name)>>
                  \o Declared(lines, i + 1, Append(stack, lines[i].name))
    ELSE IF lines[i].kind = "}"
         THEN Declared(lines, i + 1, SubSeq(stack, 1, Len(stack) - 1))
    ELSE Declared(lines, i + 1, stack)

\* C4: the emitted module text declares each container, identified by its
\* root-to-segment namespace path, at most once.
C4_NoDuplicateContainers ==
    modOut.outcome = "Ok"
    => LET d == Declared(modOut.content, 1, <<>>)
       IN \A i \in 1..Len(d), j \in 1..Len(d) : d[i] = d[j] => i = j

ConstFields(content) == SelectSeq(content, LAMBDA l : l.kind = "pub const")

\* C5 as stated: the metadata block has exactly two constant fields whose
\* values are the version's ident and commitish.
C5_MetaHoldsIdentAndCommitish ==
    modOut.outcome = "Ok"
    => LET f == ConstFields(modOut.content)
       IN /\ Len(f) = 2
          /\ f[1].value = version.ident
          /\ f[2].value = version.commitish

\* C5 (amended): the metadata block has exactly two constant fields,
\* REPOSITORY and COMMITISH, whose values are the fixed repository constant
\* and the version's commitish; the ident is not one of them.
C5_MetaHoldsRepositoryAndCommitish ==
    modOut.outcome = "Ok"
    => LET f == ConstFields(modOut.content)
       IN /\ Len(f) = 2
          /\ f[1].name = REPOSITORY /\ f[1].value = TENDERMINT_REPO
          /\ f[2].name = COMMITISH /\ f[2].value = version.commitish
          /\ f[1].value # version.ident /\ f[2].value # version.ident

C5_Witness ==
    /\ modOut.outcome = "Ok"
    /\ Len(ConstFields(modOut.content)) = 2
    /\ \E n \in prostFiles : IsGeneratedRs(n)

\* C6: for a non-empty slice of versions the library text is one module
\* declaration per version, in input order, followed by a single re-export
\* of the last version of the slice.
C6_LibReexportsLast ==
    libOut.outcome = "Ok"
    => LET n == Len(versions)
       IN /\ n >= 1
          /\ Len(libOut.content) = n + 1
          /\ \A i \in 1..n :
                 /\ libOut.content[i].kind = "pub mod;"
                 /\ libOut.content[i].name = versions[i].ident
          /\ libOut.content[n + 1].kind = "pub use"
          /\ libOut.content[n + 1].name = versions[n].ident

\* the last version is not the lexically greatest one
C6_Witness ==
    /\ libOut.outcome = "Ok"
    /\ Len(versions) >= 2
    /\ StrLess(versions[Len(versions)].ident, versions[1].ident)

\* C7: after a successful copy_files the target directory holds a copy of the
\* collected source files (one per name) and nothing else, whatever it held
\* before.
C7_TargetDependsOnSourceOnly ==
    (fsRun.op = "copy_files" /\ fsRun.outcome = "Ok")
    => LET kept == {e \in srcTree : IsCollected(e)}
       IN /\ targetDir.exists
          /\ DOMAIN targetDir.files = {e.name : e \in kept}
          /\ \A n \in DOMAIN targetDir.files : targetDir.files[n] \in kept

\* C8: when dir exists, the fetch of that call contacts url, and origin is
\* configured with url.
C8_FetchContactsUrl ==
    (syncRun.path = "fetch" /\ syncRun.fetchedFrom # NoUrl)
    => /\ syncRun.fetchedFrom = syncRun.url
       /\ site.originUrl = syncRun.url

\* C9: the only failure of an underlying step that is ignored is "not found"
\* from the removal of the target directory.
C9_OnlyNotFoundIsSwallowed ==
    \A e \in swallowed : e.step = "remove_dir_all" /\ e.error = "NotFound"

\* C10: the run that follows an interrupted clone, with the same arguments,
\* takes the fetch path, completes, and leaves the working tree at the commit
\* an uninterrupted first run would have checked out.
C10_NextRunRepairs ==
    LET first == FindReferenceOrCommit(CloneNew(syncRun.url).refs,
                                       CloneNew(syncRun.url).commits, syncRun.commitish)
    IN (syncRun.afterInterrupt /\ syncRun.outcome \in {"Ok", "Panic"} /\ first.outcome = "Ok")
       => /\ syncRun.path = "fetch"
          /\ syncRun.outcome = "Ok"
          /\ site.worktree = first.commit

====
